---- MODULE Spec2Model ----
(***************************************************************************)
(* Model of tools/data_converter/update_infos_to_v2.py: the schema         *)
(* templates, the two pruning routines, and the three dataset adapters     *)
(* update_kitti_infos / update_scannet_infos / update_sunrgbd_infos with   *)
(* the dispatch in main.                                                   *)
(*                                                                         *)
(* Python values are tagged: None, numbers, strings, lists and dicts.  A   *)
(* dict is a function from its key set to tagged values; the contents of a *)
(* list are kept as a plain sequence (the code never looks inside a list   *)
(* except to take its length).  A file path is the sequence of its         *)
(* '/'-separated components.                                               *)
(***************************************************************************)
EXTENDS Integers, Sequences, FiniteSets, TLC

VARIABLES
    \* ---- one run of the converter (main and one update_*_infos) ----
    args_dataset,       \* args.dataset
    pkl,                \* contents of the input file args.pkl
    pc,                 \* position of the run
    data_list,          \* data_list = mmcv.load(pkl_path)
    idx,                \* number of source records the for-loop has consumed
    converted_list,     \* converted_list
    ignore_class_name,  \* the local ignore_class_name: unbound, or a set
    printed,            \* what print(f'ignore classes: ...') reported
    out_file,           \* contents of out_path, written by mmcv.dump
    dumps,              \* number of mmcv.dump calls made
    error,              \* exception that ended the run, "none" if none
    \* ---- repeated application of clear_data_info_unused_keys ----
    prune_in,           \* the structure handed to the first call
    prune_out           \* the (data_info, empty_flag) pairs returned so far

vars == <<args_dataset, pkl, pc, data_list, idx, converted_list,
          ignore_class_name, printed, out_file, dumps, error,
          prune_in, prune_out>>

runVars == <<args_dataset, pkl, pc, data_list, idx, converted_list,
             ignore_class_name, printed, out_file, dumps, error>>

pruneVars == <<prune_in, prune_out>>

(***************************************************************************)
(* Bounds of the model.                                                    *)
(***************************************************************************)
MaxRecords == 2     \* longest source collection
MaxDepth == 2       \* deepest dict nesting handed to the pruner
MaxPrunes == 2      \* how many times the pruner is re-applied
MaxInstances == 2   \* most annotated objects in one source record
MaxEntry == 1       \* largest entry of the calibration matrices tried

(***************************************************************************)
(* Python values.                                                          *)
(***************************************************************************)
None == [t |-> "none"]
Num(n) == [t |-> "num", v |-> n]
Str(s) == [t |-> "str", v |-> s]
List(s) == [t |-> "list", v |-> s]
Dict(f) == [t |-> "dict", v |-> f]

EmptyDict == [k \in {} |-> None]

\* d[k] = v on a dict (adds the key when it is new)
SetItem(d, k, v) == [x \in DOMAIN d \cup {k} |-> IF x = k THEN v ELSE d[x]]

\* d[k1][k2] = v
SetItem2(d, k1, k2, v) == SetItem(d, k1, Dict(SetItem(d[k1].v, k2, v)))

\* d[k1][k2][k3] = v
SetItem3(d, k1, k2, k3, v) ==
    SetItem(d, k1, Dict(SetItem2(d[k1].v, k2, k3, v)))

(***************************************************************************)
(* Schema templates.                                                       *)
(***************************************************************************)
get_empty_instance ==
    [k \in {"bbox", "bbox_label", "bbox_3d", "bbox_3d_isvalid",
            "bbox_label_3d", "depth", "center_2d", "attr_label",
            "num_lidar_pts", "num_radar_pts", "difficulty",
            "unaligned_bbox_3d"} |-> None]

get_empty_lidar_points ==
    [k \in {"num_pts_feats", "lidar_path", "lidar2img", "lidar2ego"} |-> None]

get_empty_radar_points ==
    [k \in {"num_pts_feats", "radar_path", "radar2ego"} |-> None]

get_empty_img_info ==
    [k \in {"img_path", "height", "width", "depth_map", "cam2img",
            "cam2ego"} |-> None]

get_single_image_sweep ==
    [k \in {"timestamp", "ego2global", "images"} |->
        IF k = "images"
        THEN Dict([c \in {"CAM0", "CAM1", "CAM2", "CAM3"} |->
                      Dict(get_empty_img_info)])
        ELSE None]

get_single_lidar_sweep ==
    [k \in {"timestamp", "ego2global", "lidar_points"} |->
        IF k = "lidar_points" THEN Dict(get_empty_lidar_points) ELSE None]

get_empty_standard_data_info ==
    [k \in {"sample_id", "token"} \cup DOMAIN get_single_image_sweep
           \cup {"lidar_points", "radar_points", "image_sweeps", "instances",
                 "instances_ignore", "pts_semantic_mask_path",
                 "pts_instance_mask_path"} |->
        CASE k \in DOMAIN get_single_image_sweep -> get_single_image_sweep[k]
          [] k = "lidar_points" -> Dict(get_empty_lidar_points)
          [] k = "radar_points" -> Dict(get_empty_radar_points)
          [] k \in {"image_sweeps", "instances", "instances_ignore"} ->
                List(<<>>)
          [] OTHER -> None]

(***************************************************************************)
(* The pruning routines.                                                   *)
(***************************************************************************)
clear_instance_unused_keys(instance) ==
    [k \in {x \in DOMAIN instance : instance[x] # None} |-> instance[k]]

RECURSIVE clear_data_info_unused_keys(_)

\* Variants of the pruner with one branch changed: del_list and del_dict
\* say when the list branch and the dict branch delete the key, flag_keys
\* are the keys that can clear empty_flag.
PruneVariant(data_info, del_list(_), del_dict(_), flag_keys) ==
    LET deleted(key) ==
            /\ key # "instances"
            /\ CASE data_info[key].t = "list" -> del_list(data_info[key].v)
                 [] data_info[key].t = "none" -> TRUE
                 [] data_info[key].t = "dict" -> del_dict(data_info[key].v)
                 [] OTHER -> FALSE
    IN  [data_info |->
            [key \in {k \in DOMAIN data_info : ~deleted(k)} |->
                IF key # "instances" /\ data_info[key].t = "dict"
                THEN Dict(clear_data_info_unused_keys(
                              data_info[key].v).data_info)
                ELSE data_info[key]],
         empty_flag |-> \A key \in flag_keys : deleted(key)]

\* a nested dict is deleted only if it has no key before it is pruned
prune_testing_nested_before_pruning(data_info) ==
    LET del_list(l) == Len(l) = 0
        del_dict(d) == DOMAIN d = {}
    IN  PruneVariant(data_info, del_list, del_dict, DOMAIN data_info)

\* the `instances` branch continues without clearing empty_flag
prune_instances_not_counted(data_info) ==
    LET del_list(l) == Len(l) = 0
        del_dict(d) == clear_data_info_unused_keys(d).empty_flag
    IN  PruneVariant(data_info, del_list, del_dict,
                     DOMAIN data_info \ {"instances"})

\* a zero-length list is kept
prune_keeping_empty_lists(data_info) ==
    LET del_list(l) == FALSE
        del_dict(d) == clear_data_info_unused_keys(d).empty_flag
    IN  PruneVariant(data_info, del_list, del_dict, DOMAIN data_info)

\* a nested dict that pruned to empty is kept
prune_keeping_empty_dicts(data_info) ==
    LET del_list(l) == Len(l) = 0
        del_dict(d) == FALSE
    IN  PruneVariant(data_info, del_list, del_dict, DOMAIN data_info)

clear_data_info_unused_keys(data_info) ==
    LET keys == DOMAIN data_info
        sub(key) == clear_data_info_unused_keys(data_info[key].v)
        \* the branches that execute  del data_info[key]
        deleted(key) ==
            /\ key # "instances"
            /\ CASE data_info[key].t = "list" -> Len(data_info[key].v) = 0
                 [] data_info[key].t = "none" -> TRUE
                 [] data_info[key].t = "dict" -> sub(key).empty_flag
                 [] OTHER -> FALSE
        kept == {key \in keys : ~deleted(key)}
    IN  [data_info |->
            [key \in kept |->
                IF key # "instances" /\ data_info[key].t = "dict"
                THEN Dict(sub(key).data_info)
                ELSE data_info[key]],
         \* empty_flag stays True only if no key took a branch that clears it
         empty_flag |-> \A key \in keys : deleted(key)]

(***************************************************************************)
(* Specification SpecPrune: the pruner applied again and again to a        *)
(* populated record.                                                       *)
(***************************************************************************)
Absent == [t |-> "absent"]

\* dict with the given values, without the keys whose value is Absent
MkDict(f) == [k \in {x \in DOMAIN f : f[x] # Absent} |-> f[k]]

Leaves == {None, Num(0), List(<<>>), List(<<0>>)}

SomeInstance == [bbox_label_3d |-> Num(0)]

InstancesValues == {Absent, List(<<>>), List(<<SomeInstance>>)}

\* record-shaped structures of nesting depth at most d
RECURSIVE Records(_)
Records(d) ==
    IF d = 0 THEN {}
    ELSE {MkDict([lidar_points |-> a, sample_id |-> b, instances |-> i]) :
            a \in {Absent} \cup Leaves \cup {Dict(r) : r \in Records(d - 1)},
            b \in {Absent} \cup Leaves,
            i \in InstancesValues}

RunIdle ==
    /\ args_dataset = "none"
    /\ pkl = <<>>
    /\ pc = "idle"
    /\ data_list = <<>>
    /\ idx = 0
    /\ converted_list = <<>>
    /\ ignore_class_name = [bound |-> FALSE, names |-> {}]
    /\ printed = [done |-> FALSE, names |-> {}]
    /\ out_file = [written |-> FALSE]
    /\ dumps = 0
    /\ error = "none"

\* the record template as it is, and with only its identifiers set
Templates ==
    {get_empty_standard_data_info,
     SetItem(get_empty_standard_data_info, "sample_id", Num(0)),
     SetItem(SetItem(get_empty_standard_data_info, "sample_id", Num(0)),
             "token", Num(0))}

InitPrune ==
    /\ RunIdle
    /\ prune_in \in Records(MaxDepth) \cup Templates
    /\ prune_out = <<>>

\* one more call, on the structure the previous call returned
Prune ==
    /\ pc = "idle"
    /\ Len(prune_out) < MaxPrunes
    /\ LET arg == IF prune_out = <<>> THEN prune_in
                  ELSE prune_out[Len(prune_out)].data_info
       IN  prune_out' = Append(prune_out, clear_data_info_unused_keys(arg))
    /\ UNCHANGED <<prune_in, runVars>>

NextPrune == Prune

SpecPrune == InitPrune /\ [][NextPrune]_vars

(***************************************************************************)
(* Helpers for the adapters.                                               *)
(***************************************************************************)
\* a value that is neither None, a list nor a dict (a numpy array)
Array(a) == [t |-> "ndarray", v |-> a]

\* path.split('/')[-1]  on a path given as its '/'-separated components
Basename(path) == path[Len(path)]

\* x in CLASSES
Contains(CLASSES, x) == \E i \in 1..Len(CLASSES) : CLASSES[i] = x

\* position counted from 1 instead of 0
IndexFromOne(CLASSES, x) ==
    CHOOSE i \in 1..Len(CLASSES) : CLASSES[i] = x

\* CLASSES.index(x): 0-based position of the first occurrence
Index(CLASSES, x) ==
    (CHOOSE i \in 1..Len(CLASSES) :
        CLASSES[i] = x /\ \A j \in 1..(i - 1) : CLASSES[j] # x) - 1

\* the label branch shared by the three adapters
Label(CLASSES, name) == IF Contains(CLASSES, name) THEN Index(CLASSES, name)
                        ELSE -1

\* the names the else-branch adds to ignore_class_name for one record
Ignored(CLASSES, names) ==
    {names[i] : i \in {j \in 1..Len(names) : ~Contains(CLASSES, names[j])}}

\* int(x) on a value given in hundredths: truncation toward zero
IntOf(h) == IF h >= 0 THEN h \div 100 ELSE -((-h) \div 100)

\* astype(np.float32) on an integer value: round to a 24-bit significand,
\* ties to even
RECURSIVE Ulp(_)
Ulp(m) == IF m < 16777216 THEN 1 ELSE 2 * Ulp(m \div 2)

AsFloat32(n) ==
    LET m == IF n < 0 THEN -n ELSE n
        u == Ulp(m)
        q == m \div u
        r == m % u
        rounded == IF 2 * r < u \/ (2 * r = u /\ q % 2 = 0)
                   THEN q * u ELSE (q + 1) * u
    IN  IF n < 0 THEN -rounded ELSE rounded

VecAsFloat32(v) == [i \in 1..Len(v) |-> AsFloat32(v[i])]

MatAsFloat32(A) == [i \in 1..Len(A) |-> VecAsFloat32(A[i])]

RECURSIVE SumTo(_, _)
SumTo(f, n) == IF n = 0 THEN 0 ELSE f[n] + SumTo(f, n - 1)

\* A @ B
MatMul(A, B) ==
    [i \in 1..Len(A) |->
        [j \in 1..Len(B[1]) |->
            SumTo([k \in 1..Len(B) |-> A[i][k] * B[k][j]], Len(B))]]

\* A @ B with both operands float32: the product is float32 again
MatMulF32(A, B) == MatAsFloat32(MatMul(A, B))

\* A.transpose(1, 0)
Transpose(A) == [j \in 1..Len(A[1]) |-> [i \in 1..Len(A) |-> A[i][j]]]

(***************************************************************************)
(* update_kitti_infos: one pass of the loop body over a source record.     *)
(***************************************************************************)
KITTI_CLASSES == <<"Pedestrian", "Cyclist", "Car", "Van", "Truck",
                   "Person_sitting", "Tram", "Misc">>

\* the keys the loop body subscripts; a missing one raises KeyError
kitti_keys_present(ori) ==
    /\ {"image", "calib", "point_cloud", "annos"} \subseteq DOMAIN ori
    /\ {"image_idx", "image_path", "image_shape"} \subseteq DOMAIN ori.image
    /\ {"P0", "P1", "P2", "P3", "R0_rect", "Tr_velo_to_cam",
        "Tr_imu_to_velo"} \subseteq DOMAIN ori.calib
    /\ {"num_features", "velodyne_path"} \subseteq DOMAIN ori.point_cloud
    /\ {"name", "bbox", "location", "dimensions", "rotation_y", "truncated",
        "occluded", "alpha", "score", "index", "group_ids", "difficulty",
        "num_points_in_gt"} \subseteq DOMAIN ori.annos

kitti_instance(anns, instance_id) ==
    LET e0 == get_empty_instance
        e1 == SetItem(e0, "bbox", List(anns.bbox[instance_id]))
        e2 == SetItem(e1, "bbox_label",
                      Num(Label(KITTI_CLASSES, anns.name[instance_id])))
        loc == anns.location[instance_id]
        dims == anns.dimensions[instance_id]
        rots == <<anns.rotation_y[instance_id]>>
        gt_bboxes_3d == VecAsFloat32(loc \o dims \o rots)
        e3 == SetItem(e2, "bbox_3d", List(gt_bboxes_3d))
        e4 == SetItem(e3, "bbox_label_3d", e3["bbox_label"])
        e5 == SetItem(e4, "truncated",
                      Num(IntOf(anns.truncated[instance_id])))
        e6 == SetItem(e5, "occluded", Num(anns.occluded[instance_id]))
        e7 == SetItem(e6, "alpha", Num(anns.alpha[instance_id]))
        e8 == SetItem(e7, "score", Num(anns.score[instance_id]))
        e9 == SetItem(e8, "index", Num(anns.index[instance_id]))
        e10 == SetItem(e9, "group_id", Num(anns.group_ids[instance_id]))
        e11 == SetItem(e10, "difficulty", Num(anns.difficulty[instance_id]))
        e12 == SetItem(e11, "num_lidar_pts",
                       Num(anns.num_points_in_gt[instance_id]))
    IN  clear_instance_unused_keys(e12)

\* the two factors exchanged
kitti_lidar2cam_swapped(rect, Trv2c) == MatMulF32(Trv2c, rect)

\* the order of the matrix product that gives lidar2cam
kitti_lidar2cam(rect, Trv2c) == MatMulF32(rect, Trv2c)

\* the record appended to converted_list and the value ignore_class_name
\* holds after the pass
kitti_convert(ori) ==
    LET t0 == get_empty_standard_data_info
        t1 == IF "plane" \in DOMAIN ori
              THEN SetItem(t0, "plane", Array(ori.plane)) ELSE t0
        t2 == SetItem(t1, "sample_id", Num(ori.image.image_idx))
        t3 == SetItem3(t2, "images", "CAM0", "cam2img", List(ori.calib.P0))
        t4 == SetItem3(t3, "images", "CAM1", "cam2img", List(ori.calib.P1))
        t5 == SetItem3(t4, "images", "CAM2", "cam2img", List(ori.calib.P2))
        t6 == SetItem3(t5, "images", "CAM3", "cam2img", List(ori.calib.P3))
        t7 == SetItem3(t6, "images", "CAM2", "img_path",
                       Str(Basename(ori.image.image_path)))
        t8 == SetItem3(t7, "images", "CAM2", "height",
                       Num(ori.image.image_shape[1]))
        t9 == SetItem3(t8, "images", "CAM2", "width",
                       Num(ori.image.image_shape[2]))
        t10 == SetItem2(t9, "lidar_points", "num_pts_feats",
                        Num(ori.point_cloud.num_features))
        t11 == SetItem2(t10, "lidar_points", "lidar_path",
                        Str(Basename(ori.point_cloud.velodyne_path)))
        rect == MatAsFloat32(ori.calib.R0_rect)
        Trv2c == MatAsFloat32(ori.calib.Tr_velo_to_cam)
        lidar2cam == kitti_lidar2cam(rect, Trv2c)
        t12 == SetItem3(t11, "images", "CAM2", "lidar2cam", List(lidar2cam))
        t13 == SetItem3(t12, "images", "CAM0", "lidar2img",
                        List(MatMul(ori.calib.P0, lidar2cam)))
        t14 == SetItem3(t13, "images", "CAM1", "lidar2img",
                        List(MatMul(ori.calib.P1, lidar2cam)))
        t15 == SetItem3(t14, "images", "CAM2", "lidar2img",
                        List(MatMul(ori.calib.P2, lidar2cam)))
        t16 == SetItem3(t15, "images", "CAM3", "lidar2img",
                        List(MatMul(ori.calib.P3, lidar2cam)))
        t17 == SetItem2(t16, "lidar_points", "Tr_velo_to_cam", List(Trv2c))
        t18 == SetItem2(t17, "images", "R0_rect",
                        List(MatAsFloat32(ori.calib.R0_rect)))
        t19 == SetItem2(t18, "lidar_points", "Tr_imu_to_velo",
                        List(MatAsFloat32(ori.calib.Tr_imu_to_velo)))
        anns == ori.annos
        num_instances == Len(anns.name)
        instance_list == [i \in 1..num_instances |-> kitti_instance(anns, i)]
        t20 == SetItem(t19, "instances", List(instance_list))
    IN  [data_info |-> clear_data_info_unused_keys(t20).data_info,
         ignore_class_name |->
            [bound |-> TRUE, names |-> Ignored(KITTI_CLASSES, anns.name)]]

(***************************************************************************)
(* update_scannet_infos: one pass of the loop body.                        *)
(***************************************************************************)
SCANNET_CLASSES ==
    <<"cabinet", "bed", "chair", "sofa", "table", "door", "window",
      "bookshelf", "picture", "counter", "desk", "curtain", "refrigerator",
      "showercurtrain", "toilet", "sink", "bathtub", "garbagebin">>

scannet_keys_present(ori) ==
    /\ {"point_cloud", "pts_path", "pts_semantic_mask_path",
        "pts_instance_mask_path", "annos"} \subseteq DOMAIN ori
    /\ "num_features" \in DOMAIN ori.point_cloud
    /\ {"axis_align_matrix", "gt_num"} \subseteq DOMAIN ori.annos
    /\ ori.annos.gt_num # 0 =>
          {"name", "gt_boxes_upright_depth"} \subseteq DOMAIN ori.annos

scannet_instance(anns, instance_id) ==
    LET e0 == get_empty_instance
        e1 == SetItem(e0, "bbox_3d",
                      List(anns.gt_boxes_upright_depth[instance_id]))
        e2 == SetItem(e1, "bbox_label_3d",
                      Num(Label(SCANNET_CLASSES, anns.name[instance_id])))
    IN  clear_instance_unused_keys(e2)

\* the record has no instance list of its own to build
scannet_no_annotations(anns) == anns.gt_num = 0

\* prev is the value ignore_class_name holds when the pass starts
scannet_convert(ori, prev) ==
    LET t0 == get_empty_standard_data_info
        t1 == SetItem2(t0, "lidar_points", "num_pts_feats",
                       Num(ori.point_cloud.num_features))
        t2 == SetItem2(t1, "lidar_points", "lidar_path",
                       Str(Basename(ori.pts_path)))
        t3 == SetItem(t2, "pts_semantic_mask_path",
                      Str(Basename(ori.pts_semantic_mask_path)))
        t4 == SetItem(t3, "pts_instance_mask_path",
                      Str(Basename(ori.pts_instance_mask_path)))
        anns == ori.annos
        t5 == SetItem(t4, "axis_align_matrix", List(anns.axis_align_matrix))
        instance_list ==
            IF scannet_no_annotations(anns) THEN <<>>
            ELSE [i \in 1..Len(anns.name) |-> scannet_instance(anns, i)]
        t6 == SetItem(t5, "instances", List(instance_list))
    IN  [data_info |-> clear_data_info_unused_keys(t6).data_info,
         ignore_class_name |->
            IF scannet_no_annotations(anns) THEN prev
            ELSE [bound |-> TRUE,
                  names |-> Ignored(SCANNET_CLASSES, anns.name)]]

(***************************************************************************)
(* update_sunrgbd_infos: one pass of the loop body.                        *)
(***************************************************************************)
SUNRGBD_CLASSES == <<"bed", "table", "sofa", "chair", "toilet", "desk",
                     "dresser", "night_stand", "bookshelf", "bathtub">>

sunrgbd_keys_present(ori) ==
    /\ {"point_cloud", "pts_path", "calib", "image", "annos"}
          \subseteq DOMAIN ori
    /\ "num_features" \in DOMAIN ori.point_cloud
    /\ {"Rt", "K"} \subseteq DOMAIN ori.calib
    /\ {"image_path", "image_shape"} \subseteq DOMAIN ori.image
    /\ {"name", "gt_boxes_upright_depth"} \subseteq DOMAIN ori.annos

sunrgbd_instance(anns, instance_id) ==
    LET e0 == get_empty_instance
        e1 == SetItem(e0, "bbox_3d",
                      List(anns.gt_boxes_upright_depth[instance_id]))
        e2 == SetItem(e1, "bbox_label_3d",
                      Num(Label(SUNRGBD_CLASSES, anns.name[instance_id])))
    IN  clear_instance_unused_keys(e2)

\* np.array([[1, 0, 0], [0, 0, -1], [0, 1, 0]])
CoordFlip == <<<<1, 0, 0>>, <<0, 0, -1>>, <<0, 1, 0>>>>

sunrgbd_convert(ori) ==
    LET t0 == get_empty_standard_data_info
        t1 == SetItem2(t0, "lidar_points", "num_pts_feats",
                       Num(ori.point_cloud.num_features))
        t2 == SetItem2(t1, "lidar_points", "lidar_path",
                       Str(Basename(ori.pts_path)))
        calib == ori.calib
        rt_mat == MatMul(CoordFlip, Transpose(calib.Rt))
        depth2img == MatMul(calib.K, rt_mat)
        t3 == SetItem3(t2, "images", "CAM0", "depth2img", List(depth2img))
        t4 == SetItem3(t3, "images", "CAM0", "img_path",
                       Str(Basename(ori.image.image_path)))
        t5 == SetItem3(t4, "images", "CAM0", "height",
                       Num(ori.image.image_shape[1]))
        t6 == SetItem3(t5, "images", "CAM0", "width",
                       Num(ori.image.image_shape[2]))
        anns == ori.annos
        num_instances == Len(anns.name)
        instance_list == [i \in 1..num_instances |->
                             sunrgbd_instance(anns, i)]
        t7 == SetItem(t6, "instances", List(instance_list))
    IN  [data_info |-> clear_data_info_unused_keys(t7).data_info,
         ignore_class_name |->
            [bound |-> TRUE, names |-> Ignored(SUNRGBD_CLASSES, anns.name)]]

(***************************************************************************)
(* Source collections the runs are tried on.  Matrices are 2 x 2 (3 x 3    *)
(* for SUNRGBD, whose coordinate flip fixes the size) with integer         *)
(* entries; numeric annotation values are integers, `truncated` is given   *)
(* in hundredths.                                                          *)
(***************************************************************************)
SeqsUpTo(S, n) == UNION {[1..k -> S] : k \in 0..n}

\* the name lists tried: no object, or MaxInstances objects with names of S
NameLists(S) == {<<>>} \cup [1..MaxInstances -> S]

Without(r, key) == [k \in DOMAIN r \ {key} |-> r[k]]

Without2(r, k1, k2) ==
    [k \in DOMAIN r |-> IF k = k1 THEN Without(r[k1], k2) ELSE r[k]]

KittiNames == {"Car", "DontCare"}
ScannetNames == {"garbagebin", "Unknown"}
SunrgbdNames == {"bathtub", "Unknown"}

Mat2(a, b, c, d) == <<<<a, b>>, <<c, d>>>>

Calib(R, T, P) ==
    [P0 |-> P[1], P1 |-> P[2], P2 |-> P[3], P3 |-> P[4], R0_rect |-> R,
     Tr_velo_to_cam |-> T, Tr_imu_to_velo |-> Mat2(1, 0, 0, 1)]

Projections == <<Mat2(1, 0, 0, 1), Mat2(1, 2, 0, 1), Mat2(2, 0, 1, -1),
                 Mat2(0, 3, -1, 0)>>

DefaultCalib == Calib(Mat2(1, 1, 0, 1), Mat2(0, 1, 2, 0), Projections)

KittiAnnos(names) ==
    LET n == Len(names)
    IN  [name |-> names,
         bbox |-> [i \in 1..n |-> <<10 * i, 20, 10 * i + 5, 40>>],
         location |-> [i \in 1..n |-> <<i, 2, 3>>],
         dimensions |-> [i \in 1..n |-> <<4, 5, 6>>],
         rotation_y |-> [i \in 1..n |-> -i],
         truncated |-> [i \in 1..n |-> 150 * (i - 1)],
         occluded |-> [i \in 1..n |-> i - 1],
         alpha |-> [i \in 1..n |-> -1],
         score |-> [i \in 1..n |-> 0],
         index |-> [i \in 1..n |-> i - 1],
         group_ids |-> [i \in 1..n |-> i - 1],
         difficulty |-> [i \in 1..n |-> 0],
         num_points_in_gt |-> [i \in 1..n |-> 100 + i]]

KittiRecordNoPlane(names, calib) ==
    [image |-> [image_idx |-> 7,
                image_path |-> <<"training", "image_2", "000007.png">>,
                image_shape |-> <<370, 1224>>],
     point_cloud |-> [num_features |-> 4,
                      velodyne_path |-> <<"training", "velodyne",
                                          "000007.bin">>],
     calib |-> calib,
     annos |-> KittiAnnos(names)]

KittiRecord(names, calib) ==
    [k \in DOMAIN KittiRecordNoPlane(names, calib) \cup {"plane"} |->
        IF k = "plane" THEN <<0, -1, 0, 2>>
        ELSE KittiRecordNoPlane(names, calib)[k]]

KittiRecords ==
    {KittiRecord(names, DefaultCalib) :
        names \in NameLists(KittiNames)}
    \cup {KittiRecord(<<"Pedestrian", "Unknown">>, DefaultCalib),
          KittiRecordNoPlane(<<"Car">>, DefaultCalib),
          Without(KittiRecord(<<"Car">>, DefaultCalib), "annos"),
          Without2(KittiRecord(<<"Car">>, DefaultCalib), "calib",
                   "Tr_imu_to_velo")}

Boxes(n) == [i \in 1..n |-> <<i, 2, 3, 4, 5, 6, 0>>]

ScannetRecord(gt_num, annos) ==
    [point_cloud |-> [num_features |-> 6, lidar_idx |-> 0],
     pts_path |-> <<"points", "scene0000_00.bin">>,
     pts_semantic_mask_path |-> <<"semantic_mask", "scene0000_00.bin">>,
     pts_instance_mask_path |-> <<"instance_mask", "scene0000_00.bin">>,
     annos |-> [k \in DOMAIN annos \cup {"gt_num", "axis_align_matrix"} |->
                  CASE k = "gt_num" -> gt_num
                    [] k = "axis_align_matrix" -> Mat2(1, 0, 0, 1)
                    [] OTHER -> annos[k]]]

ScannetRecords ==
    {ScannetRecord(Len(names),
                   [name |-> names,
                    gt_boxes_upright_depth |-> Boxes(Len(names))]) :
        names \in NameLists(ScannetNames) \ {<<>>}}
    \cup {ScannetRecord(2, [name |-> <<"cabinet", "bed">>,
                            gt_boxes_upright_depth |-> Boxes(2)]),
          ScannetRecord(0, EmptyDict),
          ScannetRecord(0, [name |-> <<"bed">>,
                            gt_boxes_upright_depth |-> Boxes(1)]),
          Without(ScannetRecord(0, EmptyDict), "annos")}

SunrgbdRecord(names) ==
    [point_cloud |-> [num_features |-> 6, lidar_idx |-> 1],
     pts_path |-> <<"points", "000001.bin">>,
     calib |-> [Rt |-> <<<<1, 0, 0>>, <<0, 1, 2>>, <<0, 0, 1>>>>,
                K |-> <<<<5, 0, 3>>, <<0, 5, 2>>, <<0, 0, 1>>>>],
     image |-> [image_idx |-> 1,
                image_path |-> <<"image", "000001.jpg">>,
                image_shape |-> <<530, 730>>],
     annos |-> [gt_num |-> Len(names), name |-> names,
                gt_boxes_upright_depth |-> Boxes(Len(names))]]

SunrgbdRecords ==
    {SunrgbdRecord(names) : names \in NameLists(SunrgbdNames)}
    \cup {SunrgbdRecord(<<"bed", "lamp">>),
          Without(SunrgbdRecord(<<"bed">>), "annos")}

DatasetArgs == {"kitti", "KITTI", "scannet", "sunrgbd", "nuscenes"}

\* args.dataset.lower() on the arguments tried
Lower(s) == IF s = "KITTI" THEN "kitti" ELSE s

Collections(dataset) ==
    CASE dataset = "kitti" -> SeqsUpTo(KittiRecords, MaxRecords)
      [] dataset = "scannet" -> SeqsUpTo(ScannetRecords, MaxRecords)
      [] dataset = "sunrgbd" -> SeqsUpTo(SunrgbdRecords, MaxRecords)
      [] OTHER -> {<<>>}

PruneIdle ==
    /\ prune_in = EmptyDict
    /\ prune_out = <<>>

RunStart ==
    /\ pc = "main"
    /\ data_list = <<>>
    /\ idx = 0
    /\ converted_list = <<>>
    /\ ignore_class_name = [bound |-> FALSE, names |-> {}]
    /\ printed = [done |-> FALSE, names |-> {}]
    /\ out_file = [written |-> FALSE]
    /\ dumps = 0
    /\ error = "none"

Init ==
    /\ args_dataset \in DatasetArgs
    /\ pkl \in Collections(Lower(args_dataset))
    /\ RunStart
    /\ PruneIdle

(***************************************************************************)
(* The run: main dispatches on args.dataset; the chosen update_*_infos     *)
(* loads the collection, converts its records one per loop pass, reports   *)
(* the ignored classes and dumps the result.                               *)
(***************************************************************************)
\* the body of main's matching branch up to the head of the for-loop
Load ==
    /\ data_list' = pkl
    /\ converted_list' = <<>>
    /\ idx' = 0
    /\ pc' = "loop"
    /\ UNCHANGED <<args_dataset, pkl, ignore_class_name, printed, out_file,
                   dumps, error, pruneVars>>

\* the new record put in front
converted_list_prepend(list, temp_data_info) == <<temp_data_info>> \o list

\* converted_list.append(temp_data_info)
converted_list_append(list, temp_data_info) == Append(list, temp_data_info)

\* a record with a missing key is skipped and the loop goes on
LoopPassSkipping(keys_present, result) ==
    /\ IF keys_present
       THEN /\ converted_list' =
                  converted_list_append(converted_list, result.data_info)
            /\ ignore_class_name' = result.ignore_class_name
       ELSE UNCHANGED <<converted_list, ignore_class_name>>
    /\ idx' = idx + 1
    /\ UNCHANGED <<args_dataset, pkl, pc, error, data_list, printed, out_file,
                   dumps, pruneVars>>

\* one pass of  for ori_info_dict in mmcv.track_iter_progress(data_list):
\* a missing key raises, and nothing in update_*_infos catches it
LoopPass(keys_present, result) ==
    /\ IF keys_present
       THEN /\ converted_list' =
                  converted_list_append(converted_list, result.data_info)
            /\ ignore_class_name' = result.ignore_class_name
            /\ idx' = idx + 1
            /\ UNCHANGED <<pc, error>>
       ELSE /\ pc' = "error"
            /\ error' = "KeyError"
            /\ UNCHANGED <<converted_list, ignore_class_name, idx>>
    /\ UNCHANGED <<args_dataset, pkl, data_list, printed, out_file, dumps,
                   pruneVars>>

\* print(f'ignore classes: {ignore_class_name}') after the loop; the name
\* is bound only if some pass assigned it
Report ==
    /\ IF ignore_class_name.bound
       THEN /\ printed' = [done |-> TRUE, names |-> ignore_class_name.names]
            /\ pc' = "dump"
            /\ UNCHANGED error
       ELSE /\ pc' = "error"
            /\ error' = "NameError"
            /\ UNCHANGED printed
    /\ UNCHANGED <<args_dataset, pkl, data_list, idx, converted_list,
                   ignore_class_name, out_file, dumps, pruneVars>>

\* mmcv.dump(dict(metainfo={'DATASET': name}, data_list=converted_list), ...)
Dump(name) ==
    /\ out_file' = [written |-> TRUE,
                    content |-> [metainfo |-> [DATASET |-> name],
                                 data_list |-> converted_list]]
    /\ dumps' = dumps + 1
    /\ pc' = "done"
    /\ UNCHANGED <<args_dataset, pkl, data_list, idx, converted_list,
                   ignore_class_name, printed, error, pruneVars>>

MainKitti ==
    /\ pc = "main"
    /\ Lower(args_dataset) = "kitti"
    /\ Load

MainScannet ==
    /\ pc = "main"
    /\ Lower(args_dataset) # "kitti"
    /\ Lower(args_dataset) = "scannet"
    /\ Load

MainSunrgbd ==
    /\ pc = "main"
    /\ Lower(args_dataset) \notin {"kitti", "scannet"}
    /\ Lower(args_dataset) = "sunrgbd"
    /\ Load

MainUnsupported ==
    /\ pc = "main"
    /\ Lower(args_dataset) \notin {"kitti", "scannet", "sunrgbd"}
    /\ pc' = "error"
    /\ error' = "NotImplementedError"
    /\ UNCHANGED <<args_dataset, pkl, data_list, idx, converted_list,
                   ignore_class_name, printed, out_file, dumps, pruneVars>>

KittiPass ==
    /\ pc = "loop"
    /\ Lower(args_dataset) = "kitti"
    /\ idx < Len(data_list)
    /\ LET ori_info_dict == data_list[idx + 1]
       IN  LoopPass(kitti_keys_present(ori_info_dict),
                    kitti_convert(ori_info_dict))

KittiReport ==
    /\ pc = "loop"
    /\ Lower(args_dataset) = "kitti"
    /\ idx = Len(data_list)
    /\ Report

KittiDump ==
    /\ pc = "dump"
    /\ Lower(args_dataset) = "kitti"
    /\ Dump("KITTI")

ScannetPass ==
    /\ pc = "loop"
    /\ Lower(args_dataset) = "scannet"
    /\ idx < Len(data_list)
    /\ LET ori_info_dict == data_list[idx + 1]
       IN  LoopPass(scannet_keys_present(ori_info_dict),
                    scannet_convert(ori_info_dict, ignore_class_name))

ScannetReport ==
    /\ pc = "loop"
    /\ Lower(args_dataset) = "scannet"
    /\ idx = Len(data_list)
    /\ Report

ScannetDump ==
    /\ pc = "dump"
    /\ Lower(args_dataset) = "scannet"
    /\ Dump("SCANNET")

SunrgbdPass ==
    /\ pc = "loop"
    /\ Lower(args_dataset) = "sunrgbd"
    /\ idx < Len(data_list)
    /\ LET ori_info_dict == data_list[idx + 1]
       IN  LoopPass(sunrgbd_keys_present(ori_info_dict),
                    sunrgbd_convert(ori_info_dict))

SunrgbdReport ==
    /\ pc = "loop"
    /\ Lower(args_dataset) = "sunrgbd"
    /\ idx = Len(data_list)
    /\ Report

SunrgbdDump ==
    /\ pc = "dump"
    /\ Lower(args_dataset) = "sunrgbd"
    /\ Dump("SUNRGBD")

Next ==
    \/ MainKitti
    \/ MainScannet
    \/ MainSunrgbd
    \/ MainUnsupported
    \/ KittiPass
    \/ KittiReport
    \/ KittiDump
    \/ ScannetPass
    \/ ScannetReport
    \/ ScannetDump
    \/ SunrgbdPass
    \/ SunrgbdReport
    \/ SunrgbdDump

Spec == Init /\ [][Next]_vars

(***************************************************************************)
(* Specification SpecCalib: the KITTI run on one-record collections whose  *)
(* calibration matrices range over all matrices within the entry bound.    *)
(***************************************************************************)
Matrices == {Mat2(a, b, c, d) : a \in 0..MaxEntry, b \in 0..MaxEntry,
                                c \in 0..MaxEntry, d \in 0..MaxEntry}

ProjectionChoices ==
    {Projections,
     <<Projections[2], Projections[3], Projections[4], Projections[1]>>,
     <<Projections[4], Projections[4], Projections[1], Projections[2]>>}

InitCalib ==
    /\ args_dataset = "kitti"
    /\ pkl \in {<<KittiRecord(<<"Car">>, Calib(R, T, P))>> :
                   R \in Matrices, T \in Matrices, P \in ProjectionChoices}
    /\ RunStart
    /\ PruneIdle

NextCalib ==
    \/ MainKitti
    \/ KittiPass
    \/ KittiReport
    \/ KittiDump

SpecCalib == InitCalib /\ [][NextCalib]_vars

(***************************************************************************)
(* Properties.                                                             *)
(***************************************************************************)
Adapter == Lower(args_dataset)

Vocabulary ==
    CASE Adapter = "kitti" -> KITTI_CLASSES
      [] Adapter = "scannet" -> SCANNET_CLASSES
      [] Adapter = "sunrgbd" -> SUNRGBD_CLASSES
      [] OTHER -> <<>>

VocabularySet == {Vocabulary[p] : p \in 1..Len(Vocabulary)}

KeysPresent(ori) ==
    CASE Adapter = "kitti" -> kitti_keys_present(ori)
      [] Adapter = "scannet" -> scannet_keys_present(ori)
      [] Adapter = "sunrgbd" -> sunrgbd_keys_present(ori)
      [] OTHER -> FALSE

\* the argument of the i-th call of the pruner
PruneArg(i) == IF i = 1 THEN prune_in ELSE prune_out[i - 1].data_info

\* C1: pruning is idempotent: every further call of the pruner on the
\* result of the first call returns the same structure (no field is removed
\* any more) and the same emptiness verdict as the first call.
C1_PruneIdempotent ==
    \A i \in 2..Len(prune_out) :
        /\ prune_out[i].data_info = prune_out[i - 1].data_info
        /\ prune_out[i].data_info = prune_out[1].data_info
        /\ prune_out[i].empty_flag = prune_out[1].empty_flag

\* the pruner ran twice on a record with `instances` whose first pruning
\* removed something from a nested dict and left part of it
C1_Witness ==
    /\ Len(prune_out) >= 2
    /\ "instances" \in DOMAIN prune_in
    /\ "lidar_points" \in DOMAIN prune_out[1].data_info
    /\ prune_out[1].data_info["lidar_points"].t = "dict"
    /\ prune_out[1].data_info["lidar_points"] # prune_in["lidar_points"]

\* what C2 calls empty: every field but `instances` is unset, a zero-length
\* list, or a nested structure that is empty in the same sense
RECURSIVE EveryOtherFieldUnset(_)
EveryOtherFieldUnset(x) ==
    \A k \in DOMAIN x \ {"instances"} :
        \/ x[k].t = "none"
        \/ x[k].t = "list" /\ Len(x[k].v) = 0
        \/ x[k].t = "dict" /\ EveryOtherFieldUnset(x[k].v)

\* the same, where a structure that has an `instances` key is never empty
RECURSIVE NothingSetAndNoInstances(_)
NothingSetAndNoInstances(x) ==
    /\ "instances" \notin DOMAIN x
    /\ \A k \in DOMAIN x :
        \/ x[k].t = "none"
        \/ x[k].t = "list" /\ Len(x[k].v) = 0
        \/ x[k].t = "dict" /\ NothingSetAndNoInstances(x[k].v)

\* C2 as stated: the emptiness flag is true exactly if every field other
\* than `instances` is unset, a zero-length list or a nested structure that
\* prunes to empty, whether or not `instances` is there.
C2_FlagIgnoresInstances ==
    \A i \in 1..Len(prune_out) :
        prune_out[i].empty_flag = EveryOtherFieldUnset(PruneArg(i))

\* C2 amended: the emptiness flag is true exactly if the structure has no
\* `instances` key and every field is unset, a zero-length list or a nested
\* structure for which the same holds.
C2_FlagCountsInstances ==
    \A i \in 1..Len(prune_out) :
        prune_out[i].empty_flag = NothingSetAndNoInstances(PruneArg(i))

\* the pruner reported empty for a record with an unset field and a nested
\* dict that has fields of its own
C2_Witness ==
    /\ Len(prune_out) >= 1
    /\ prune_out[1].empty_flag
    /\ "sample_id" \in DOMAIN prune_in
    /\ "lidar_points" \in DOMAIN prune_in
    /\ prune_in["lidar_points"].t = "dict"
    /\ DOMAIN prune_in["lidar_points"].v # {}

\* no field but `instances`, at any dict depth, is None, a zero-length list
\* or an empty dict
RECURSIVE NoUnsetField(_)
NoUnsetField(d) ==
    \A k \in DOMAIN d \ {"instances"} :
        /\ d[k].t # "none"
        /\ d[k].t = "list" => Len(d[k].v) > 0
        /\ d[k].t = "dict" => DOMAIN d[k].v # {} /\ NoUnsetField(d[k].v)

InstancesOf(rec) == rec["instances"].v

\* C3: every converted record has an `instances` list, no other field of it
\* at any dict depth is None, a zero-length list or an empty dict, and no
\* instance has a None field.
C3_NoUnsetFieldEmitted ==
    \A i \in 1..Len(converted_list) :
        LET rec == converted_list[i]
        IN  /\ "instances" \in DOMAIN rec
            /\ rec["instances"].t = "list"
            /\ NoUnsetField(rec)
            /\ \A j \in 1..Len(InstancesOf(rec)) :
                  \A k \in DOMAIN InstancesOf(rec)[j] :
                      InstancesOf(rec)[j][k].t # "none"

\* a finished run that emitted a record without instances and a record
\* with instances
C3_Witness ==
    /\ pc = "done"
    /\ \E i \in 1..Len(converted_list) :
          Len(InstancesOf(converted_list[i])) = 0
    /\ \E i \in 1..Len(converted_list) :
          Len(InstancesOf(converted_list[i])) > 0

\* the label C4 expects for a name
ExpectedLabel(name, label) ==
    \/ \E p \in 1..Len(Vocabulary) : Vocabulary[p] = name /\ label = p - 1
    \/ name \notin VocabularySet /\ label = -1

\* the names of the source record the adapter builds instances from
SourceNames(ori) ==
    IF Adapter = "scannet" /\ ori.annos.gt_num = 0 THEN <<>>
    ELSE ori.annos.name

RunIgnoredNames ==
    UNION {{SourceNames(data_list[i])[j] :
               j \in {n \in 1..Len(SourceNames(data_list[i])) :
                         SourceNames(data_list[i])[n] \notin VocabularySet}} :
           i \in 1..Len(data_list)}

\* C5: when the run has reported, the reported set is the set of all
\* unrecognized names over all instances of all records of the run.
C5_ReportCoversWholeRun ==
    printed.done => printed.names = RunIgnoredNames

\* the canonical dataset name of the adapter
CanonicalName ==
    CASE Adapter = "kitti" -> "KITTI"
      [] Adapter = "scannet" -> "SCANNET"
      [] Adapter = "sunrgbd" -> "SUNRGBD"
      [] OTHER -> "none"

\* the normalized record of one source record
ConversionOf(ori) ==
    CASE Adapter = "kitti" -> kitti_convert(ori).data_info
      [] Adapter = "scannet" ->
            scannet_convert(ori, [bound |-> FALSE, names |-> {}]).data_info
      [] Adapter = "sunrgbd" -> sunrgbd_convert(ori).data_info

\* C6: what a successful run persists is {metainfo: {DATASET: name},
\* data_list} with one record per source record, the i-th being the
\* conversion of the i-th source record.
C6_OneRecordPerSourceInOrder ==
    out_file.written =>
        /\ DOMAIN out_file.content = {"metainfo", "data_list"}
        /\ out_file.content.metainfo = [DATASET |-> CanonicalName]
        /\ Len(out_file.content.data_list) = Len(pkl)
        /\ \A i \in 1..Len(pkl) :
              out_file.content.data_list[i] = ConversionOf(pkl[i])

\* a finished run over a collection whose first two records convert to
\* different records
C6_Witness ==
    /\ pc = "done"
    /\ out_file.written
    /\ Len(pkl) >= 2
    /\ ConversionOf(pkl[1]) # ConversionOf(pkl[2])

\* C7: the output is written at most once and only after every source
\* record was converted; a record that fails to convert ends the run with
\* the error, is never stepped over, and nothing is written in that run.
C7_AllOrNothing ==
    /\ dumps <= 1
    /\ out_file.written <=> dumps = 1
    /\ out_file.written =>
          /\ error = "none"
          /\ idx = Len(pkl)
          /\ Len(out_file.content.data_list) = Len(pkl)
    /\ error # "none" => pc = "error" /\ ~out_file.written
    /\ \A i \in 1..idx : KeysPresent(data_list[i])
    /\ (\E i \in 1..Len(pkl) : ~KeysPresent(pkl[i])) =>
          /\ ~out_file.written
          /\ pc \notin {"dump", "done"}
          /\ Len(converted_list) < Len(pkl)

\* a run that converted a record and then stopped on a record with a
\* missing field
C7_Witness ==
    /\ pc = "error"
    /\ error = "KeyError"
    /\ idx >= 1
    /\ Len(converted_list) >= 1
    /\ ~out_file.written

\* C8: a ScanNet run over a collection of well-formed records, one of which
\* has gt_num == 0, ends by persisting a data_list that has, at the place
\* of every record with gt_num == 0, a record whose instances list is empty.
C8_EmptyAnnotationsPersisted ==
    (/\ Adapter = "scannet"
     /\ pc \in {"done", "error"}
     /\ \A i \in 1..Len(pkl) : scannet_keys_present(pkl[i])
     /\ \E i \in 1..Len(pkl) : pkl[i].annos.gt_num = 0)
    => /\ out_file.written
       /\ Len(out_file.content.data_list) = Len(pkl)
       /\ \A i \in 1..Len(pkl) :
             pkl[i].annos.gt_num = 0 =>
                InstancesOf(out_file.content.data_list[i]) = <<>>

Cameras == {"CAM0", "CAM1", "CAM2", "CAM3"}

\* the `images` field of a converted record, given the keys a KITTI record
\* is to have there
ImagesAsClaimed(rec, kitti_keys) ==
    CASE Adapter = "kitti" ->
            /\ "images" \in DOMAIN rec
            /\ rec["images"].t = "dict"
            /\ DOMAIN rec["images"].v = kitti_keys
            /\ \A c \in Cameras :
                /\ rec["images"].v[c].t = "dict"
                /\ DOMAIN rec["images"].v[c].v =
                      IF c = "CAM2"
                      THEN {"cam2img", "lidar2img", "img_path", "height",
                            "width", "lidar2cam"}
                      ELSE {"cam2img", "lidar2img"}
      [] Adapter = "sunrgbd" ->
            /\ "images" \in DOMAIN rec
            /\ rec["images"].t = "dict"
            /\ DOMAIN rec["images"].v = {"CAM0"}
            /\ rec["images"].v["CAM0"].t = "dict"
            /\ DOMAIN rec["images"].v["CAM0"].v =
                  {"depth2img", "img_path", "height", "width"}
      [] Adapter = "scannet" -> "images" \notin DOMAIN rec

\* C9 as stated: the keys of `images` are exactly CAM0..CAM3 for KITTI,
\* exactly CAM0 for SUNRGBD, and the field is absent for ScanNet.
C9_ImagesOnlyCameras ==
    \A i \in 1..Len(converted_list) :
        ImagesAsClaimed(converted_list[i], Cameras)

\* C9 amended: for KITTI the keys of `images` are exactly CAM0..CAM3 and
\* R0_rect, where R0_rect holds the rectification matrix as a list and the
\* cameras hold image info; SUNRGBD and ScanNet as stated.
C9_ImagesCamerasAndRect ==
    \A i \in 1..Len(converted_list) :
        /\ ImagesAsClaimed(converted_list[i], Cameras \cup {"R0_rect"})
        /\ Adapter = "kitti" =>
              /\ converted_list[i]["images"].v["R0_rect"].t = "list"
              /\ converted_list[i]["images"].v["R0_rect"].v =
                    data_list[i].calib.R0_rect

\* a finished KITTI run that emitted a record
C9_Witness ==
    /\ pc = "done"
    /\ Adapter = "kitti"
    /\ Len(converted_list) >= 1
    /\ "R0_rect" \in DOMAIN converted_list[1]["images"].v

\* the matrix product, entry by entry
RECURSIVE Dot(_, _, _, _, _)
Dot(A, B, i, j, k) ==
    IF k = 0 THEN 0 ELSE A[i][k] * B[k][j] + Dot(A, B, i, j, k - 1)

IsProduct(C, A, B) ==
    /\ Len(C) = Len(A)
    /\ \A i \in 1..Len(A) :
        /\ Len(C[i]) = Len(B[1])
        /\ \A j \in 1..Len(B[1]) : C[i][j] = Dot(A, B, i, j, Len(B))

\* C10: in every converted KITTI record images.CAM2.lidar2cam is R @ T,
\* images.CAMk.lidar2img is Pk @ (R @ T) and images.CAMk.cam2img is Pk,
\* for the record's R0_rect R, Tr_velo_to_cam T and projections P0..P3.
C10_CalibrationChain ==
    \A i \in 1..Len(converted_list) :
        LET calib == data_list[i].calib
            images == converted_list[i]["images"].v
            P == [CAM0 |-> calib.P0, CAM1 |-> calib.P1, CAM2 |-> calib.P2,
                  CAM3 |-> calib.P3]
            lidar2cam == images["CAM2"].v["lidar2cam"].v
        IN  /\ "lidar2cam" \in DOMAIN images["CAM2"].v
            /\ IsProduct(lidar2cam, calib.R0_rect, calib.Tr_velo_to_cam)
            /\ \A c \in Cameras :
                /\ {"lidar2img", "cam2img"} \subseteq DOMAIN images[c].v
                /\ IsProduct(images[c].v["lidar2img"].v, P[c], lidar2cam)
                /\ images[c].v["cam2img"].v = P[c]

\* a finished run on a record whose R and T do not commute
C10_Witness ==
    /\ pc = "done"
    /\ Len(converted_list) = 1
    /\ MatMul(data_list[1].calib.R0_rect, data_list[1].calib.Tr_velo_to_cam)
          # MatMul(data_list[1].calib.Tr_velo_to_cam,
                   data_list[1].calib.R0_rect)

\* C11: a run of any of the three adapters on a collection of zero records
\* comes to its report with the ignored-category set bound and empty, ends
\* without error, and persists {metainfo, data_list: []}.
C11_EmptyCollectionCompletes ==
    (Adapter \in {"kitti", "scannet", "sunrgbd"} /\ pkl = <<>>) =>
        /\ (pc = "loop" /\ idx = Len(data_list)) =>
              ignore_class_name = [bound |-> TRUE, names |-> {}]
        /\ error = "none"
        /\ pc \in {"dump", "done"} =>
              printed = [done |-> TRUE, names |-> {}]
        /\ pc = "done" =>
              /\ out_file.written
              /\ out_file.content =
                    [metainfo |-> [DATASET |-> CanonicalName],
                     data_list |-> <<>>]

====
